---- MODULE Spec2Model ----
(***************************************************************************)
(* Portfolio API (backend/app): get_assets, calculate_insights and the     *)
(* three HTTP handlers of main.py.                                         *)
(*                                                                         *)
(* Numbers.  A nominal_value is a Python float; here it is an integer      *)
(* count of 1/PerDollar dollars, so that both cents (what get_assets       *)
(* produces) and sixteenths of a dollar (binary fractions, exact as        *)
(* floats, used to exercise rounding) are whole numbers.  round(x, n) is   *)
(* computed on the exact value, ties to even, which is what Python's       *)
(* round does on a float that holds the value exactly.  An Insight value   *)
(* is an integer count of hundredths for the two monetary insights and of  *)
(* ten-thousandths for the two rates.  NaN and infinities are outside the  *)
(* model.                                                                  *)
(*                                                                         *)
(* The pseudo-random generator of the random module is one process-global  *)
(* object.  Its state is modelled as one word of a full-period linear      *)
(* congruential generator; seed, getrandbits, random, choices, randint     *)
(* and uniform are built on it the way Lib/random.py builds them on the    *)
(* words of the Mersenne Twister.                                          *)
(*                                                                         *)
(* Specifications: Spec (requests one after the other, the date changing   *)
(* at any moment), SpecDay (the same within one day), SpecPar (requests    *)
(* on several worker threads, overlapping) and, for the pure function      *)
(* alone, SpecCalc (calculate_insights on any short list).                 *)
(***************************************************************************)
EXTENDS Integers, Sequences, FiniteSets, TLC

VARIABLES
    rng,        \* state of the process-global generator of module random
    today,      \* the calendar day date.today() returns (day number)
    pc,         \* per worker thread: position in its handler
    kind,       \* per worker thread: the route being served
    i,          \* per worker thread: loop variable of get_assets
    assets,     \* per worker thread: local list `assets` of get_assets
    days,       \* per worker thread: the date.today() read for each asset
    calls,      \* history: the completed get_assets calls, in return order
    responses,  \* history: the HTTP responses sent, in order
    last,       \* the worker thread that ran most recently (0: none)
    switches,   \* number of preemptions of a thread inside a handler
    input,      \* argument handed to calculate_insights directly
    output      \* what that direct call produced

vars == <<rng, today, pc, kind, i, assets, days, calls, responses, last,
          switches, input, output>>

serverVars == <<rng, today, pc, kind, i, assets, days, calls, responses, last,
                switches>>

-----------------------------------------------------------------------------
(* Bounds *)

NumWorkers == 2
MaxRequests == 2
MaxDay == 1
MaxSwitches == 1
MaxLen == 3

Workers == 1..NumWorkers

-----------------------------------------------------------------------------
(* Fixed-point arithmetic *)

PerDollar == 400

Cent == PerDollar \div 100

Abs(n) == IF n < 0 THEN -n ELSE n

RECURSIVE GCD(_, _)
GCD(a, b) == IF b = 0 THEN a ELSE GCD(b, a % b)

\* n/d (d > 0) rounded to the nearest integer, ties to the even one
RoundHalfEven(n, d) ==
    LET q == n \div d
        r == n % d
    IN  IF 2 * r < d THEN q
        ELSE IF 2 * r > d THEN q + 1
        ELSE IF q % 2 = 0 THEN q ELSE q + 1

\* round(x, 2) of a value x given in 1/PerDollar: the result in hundredths
Round2(x) == RoundHalfEven(x, Cent)

\* floor(n * 10^k / d) and the remainder, by long division (0 <= n, 0 < d)
RECURSIVE LongDiv(_, _, _)
LongDiv(n, d, k) ==
    IF k = 0 THEN <<n \div d, n % d>>
    ELSE LET p == LongDiv(n, d, k - 1)
         IN  <<p[1] * 10 + (p[2] * 10) \div d, (p[2] * 10) % d>>

\* round(n / d, 4) in ten-thousandths, d # 0
Round4(n, d) ==
    LET g  == GCD(Abs(n), Abs(d))
        nn == Abs(n) \div g
        dd == Abs(d) \div g
        p  == LongDiv(nn, dd, 4)
        m  == IF 2 * p[2] < dd THEN p[1]
              ELSE IF 2 * p[2] > dd THEN p[1] + 1
              ELSE IF p[1] % 2 = 0 THEN p[1] ELSE p[1] + 1
    IN  IF (n < 0) = (d < 0) THEN m ELSE -m

-----------------------------------------------------------------------------
(* The random module *)

RngMod == 512
SeedValue == 42

\* one step of the generator: the new state, which is also the word it yields
Genrand(s) == (205 * s + 29) % RngMod

\* seeding only before the first call has returned
SeedOnce(s) == IF calls = <<>> THEN SeedValue % RngMod ELSE s

\* seeding with a value that depends on the date
SeedByDay(s) == (SeedValue + today) % RngMod

\* random.seed(42): the state afterwards depends on the seed alone
Seed(s) == SeedValue % RngMod

\* random.random(): two words, the high bits of each, as a fraction of FracDen;
\* yields <<numerator, state afterwards>>
FracDen == 256
Random(s) ==
    LET w1 == Genrand(s)
        w2 == Genrand(w1)
    IN  <<(w1 \div 32) * 16 + (w2 \div 32), w2>>

\* random.choices(statuses, weights=[0.6, 0.2, 0.2])[0] for random() = n/FracDen:
\* bisect over the cumulative weights 0.6, 0.8
Statuses == <<"active", "defaulted", "paid">>
Choices(n) ==
    IF 10 * n < 6 * FracDen THEN Statuses[1]
    ELSE IF 10 * n < 8 * FracDen THEN Statuses[2]
    ELSE Statuses[3]

\* random.randint(-90, 180) = -90 + _randbelow(271); _randbelow draws
\* getrandbits(9) until the word is below 271
MinOffset == -90
MaxOffset == 180
RandWidth == MaxOffset - MinOffset + 1
RandbelowAccepts(word) == word < RandWidth

\* date.today() - timedelta(days=random.randint(-90, 180))
DueDateBefore(t, below) == t - (MinOffset + below)

\* date.today() + timedelta(days=random.randint(-90, 180)), for the value
\* t of date.today() and the word _randbelow accepted
DueDate(t, below) == t + (MinOffset + below)

\* round(random.uniform(1000, 50000), 2) for random() = n/FracDen, in 1/PerDollar
MinValue == 1000
MaxValue == 50000
Uniform(n) ==
    Cent * RoundHalfEven(100 * MinValue * FracDen + 100 * (MaxValue - MinValue) * n,
                         FracDen)

\* f"asset-{i + 1:03d}" for the loop variable i
Format03d(n) ==
    IF n < 10 THEN "00" \o ToString(n)
    ELSE IF n < 100 THEN "0" \o ToString(n)
    ELSE ToString(n)

AssetIdFromZero(k) == "asset-" \o Format03d(k)

AssetId(k) == "asset-" \o Format03d(k + 1)

NumAssets == 20

-----------------------------------------------------------------------------
(* models.py *)

Asset(id, nominal_value, st, due) ==
    [id |-> id, nominal_value |-> nominal_value, status |-> st, due_date |-> due]

Insight(id, name, value) == [id |-> id, name |-> name, value |-> value]

HealthResponse == [status |-> "healthy", version |-> "1.0.0"]

-----------------------------------------------------------------------------
(* services.calculate_insights *)

RECURSIVE SumValues(_)
SumValues(s) ==
    IF s = <<>> THEN 0 ELSE s[1].nominal_value + SumValues(Tail(s))

HasStatus(s, st) == SelectSeq(s, LAMBDA a : a.status = st)

\* a / b of Python: the quotient num/den, or ZeroDivisionError raised
TrueDiv(a, b) == [raised |-> b = 0, num |-> a, den |-> b]

Zero == [raised |-> FALSE, num |-> 0, den |-> 1]

total_value(s) == SumValues(s)

active_assets(s) == HasStatus(s, "active")

defaulted_assets(s) == HasStatus(s, "defaulted")

paid_assets(s) == HasStatus(s, "paid")

default_rate_unguarded(s) == TrueDiv(Len(defaulted_assets(s)), Len(s))

default_rate(s) ==
    IF Len(s) # 0 THEN TrueDiv(Len(defaulted_assets(s)), Len(s)) ELSE Zero

outstanding_debt_unpaid(s) ==
    SumValues(active_assets(s)) + SumValues(defaulted_assets(s))

outstanding_debt(s) == SumValues(active_assets(s))

collection_rate_inverted(s) ==
    IF total_value(s) # 0 THEN TrueDiv(total_value(s), SumValues(paid_assets(s)))
    ELSE Zero

collection_rate_positive(s) ==
    IF total_value(s) > 0 THEN TrueDiv(SumValues(paid_assets(s)), total_value(s))
    ELSE Zero

collection_rate(s) ==
    LET total == total_value(s)
    IN  IF total # 0 THEN TrueDiv(SumValues(paid_assets(s)), total) ELSE Zero

InsightListByName(tv, dr, od, cr) ==
    << Insight("insight-004", "collection_rate", Round4(cr.num, cr.den)),
       Insight("insight-002", "default_rate", Round4(dr.num, dr.den)),
       Insight("insight-003", "outstanding_debt", Round2(od)),
       Insight("insight-001", "total_portfolio_value", Round2(tv)) >>

InsightList(tv, dr, od, cr) ==
    << Insight("insight-001", "total_portfolio_value", Round2(tv)),
       Insight("insight-002", "default_rate", Round4(dr.num, dr.den)),
       Insight("insight-003", "outstanding_debt", Round2(od)),
       Insight("insight-004", "collection_rate", Round4(cr.num, cr.den)) >>

\* the returned list, or the exception that escaped
calculate_insights(s) ==
    LET dr == default_rate(s)
        cr == collection_rate(s)
    IN  IF dr.raised \/ cr.raised
        THEN [raised |-> TRUE, value |-> <<>>]
        ELSE [raised |-> FALSE,
              value |-> InsightList(total_value(s), dr, outstanding_debt(s), cr)]

-----------------------------------------------------------------------------
(* services.get_assets.  A thread switch, and a change of date, is modelled *)
(* before line 8, between two iterations of the loop and before the       *)
(* return.  The clock is read once in an iteration, so for requests that   *)
(* do not overlap nothing is lost; for overlapping requests, switches      *)
(* inside an iteration would only add behaviours.                          *)

Busy(w) == pc[w] # "idle"

\* w may run now: it is the running thread, or the running thread is outside
\* any handler, or the interpreter preempts the running thread
Preempts(w) == IF last = 0 \/ last = w THEN FALSE ELSE Busy(last)

MayRun(w) == Preempts(w) => switches < MaxSwitches

Ran(w) ==
    /\ last' = w
    /\ switches' = IF Preempts(w) THEN switches + 1 ELSE switches

\* the same for the last step of a handler: the thread leaves the handler
Left(w) ==
    /\ last' = 0
    /\ switches' = IF Preempts(w) THEN switches + 1 ELSE switches

\* line 8: random.seed(42); lines 9-14: the locals
GetAssetsSeed(w) ==
    /\ pc[w] = "seed"
    /\ MayRun(w)
    /\ rng' = Seed(rng)
    /\ assets' = [assets EXCEPT ![w] = <<>>]
    /\ days' = [days EXCEPT ![w] = <<>>]
    /\ i' = [i EXCEPT ![w] = 0]
    /\ pc' = [pc EXCEPT ![w] = "loop"]
    /\ Ran(w)
    /\ UNCHANGED <<today, kind, calls, responses, input, output>>

\* _randbelow(271) under random.randint(-90, 180): words are drawn until one
\* is accepted; yields that word, which is also the state afterwards
RECURSIVE Randbelow(_)
Randbelow(s) ==
    LET word == Genrand(s)
    IN  IF RandbelowAccepts(word) THEN word ELSE Randbelow(word)

\* lines 15-25, one iteration of the loop: status (line 16), due_date (line
\* 17, with the one date.today() of the iteration), the Asset with its
\* nominal_value (lines 18-25), and the next i
GetAssetsIteration(w) ==
    /\ pc[w] = "loop"
    /\ MayRun(w)
    /\ LET c == Random(rng)
           d == Randbelow(c[2])
           u == Random(d)
       IN  /\ assets' = [assets EXCEPT ![w] =
                 Append(@, Asset(AssetId(i[w]), Uniform(u[1]), Choices(c[1]),
                                 DueDate(today, d)))]
           /\ rng' = u[2]
    /\ days' = [days EXCEPT ![w] = Append(@, today)]
    /\ i' = [i EXCEPT ![w] = @ + 1]
    /\ pc' = [pc EXCEPT ![w] = IF i[w] + 1 < NumAssets THEN "loop" ELSE "return"]
    /\ Ran(w)
    /\ UNCHANGED <<today, kind, calls, responses, input, output>>

\* get_assets run from line 8 to line 26 with no other thread in between: the
\* status, the day offset and the nominal_value of each asset
RECURSIVE DrawsAlone(_, _)
DrawsAlone(s, n) ==
    IF n = 0 THEN <<>>
    ELSE LET c == Random(s)
             d == Randbelow(c[2])
             u == Random(d)
         IN  << [status |-> Choices(c[1]), offset |-> MinOffset + d,
                 nominal_value |-> Uniform(u[1])] >> \o DrawsAlone(u[2], n - 1)

GetAssetsAlone == DrawsAlone(Seed(0), NumAssets)

-----------------------------------------------------------------------------
(* main.py: the handlers *)

Routes == {"/health", "/assets", "/insights"}

Response(route, code, body) == [route |-> route, status_code |-> code, body |-> body]

\* list_insights after get_assets returned: 200 with the insights, or the
\* server error the framework makes of an escaped exception
InsightsResponse(a) ==
    LET r == calculate_insights(a)
    IN  IF r.raised THEN Response("/insights", 500, <<>>)
        ELSE Response("/insights", 200, r.value)

\* a worker thread picks up a request while other requests may be in progress
Accept(w, route) ==
    /\ pc[w] = "idle"
    /\ Len(responses) + Cardinality({v \in Workers : Busy(v)}) < MaxRequests
    /\ MayRun(w)
    /\ kind' = [kind EXCEPT ![w] = route]
    /\ pc' = [pc EXCEPT ![w] = IF route = "/health" THEN "health" ELSE "seed"]
    /\ Ran(w)
    /\ UNCHANGED <<rng, today, i, assets, days, calls, responses, input, output>>

\* the same when no other request is in progress
AcceptAlone(w, route) ==
    /\ \A v \in Workers : ~Busy(v)
    /\ Accept(w, route)

\* worker threads are interchangeable; when requests do not overlap the first
\* one serves them all
First == CHOOSE w \in Workers : \A v \in Workers : w <= v

\* health_check
HealthCheck(w) ==
    /\ pc[w] = "health"
    /\ MayRun(w)
    /\ responses' = Append(responses, Response("/health", 200, HealthResponse))
    /\ pc' = [pc EXCEPT ![w] = "idle"]
    /\ kind' = [kind EXCEPT ![w] = "/health"]
    /\ Left(w)
    /\ UNCHANGED <<rng, today, i, assets, days, calls, input, output>>

\* line 26 of services.py, then the rest of list_assets or list_insights; the
\* locals of the call are gone afterwards
Return(w) ==
    /\ pc[w] = "return"
    /\ MayRun(w)
    /\ calls' = Append(calls, [assets |-> assets[w], days |-> days[w]])
    /\ responses' = Append(responses,
           IF kind[w] = "/assets" THEN Response("/assets", 200, assets[w])
           ELSE InsightsResponse(assets[w]))
    /\ pc' = [pc EXCEPT ![w] = "idle"]
    /\ kind' = [kind EXCEPT ![w] = "/health"]
    /\ i' = [i EXCEPT ![w] = 0]
    /\ assets' = [assets EXCEPT ![w] = <<>>]
    /\ days' = [days EXCEPT ![w] = <<>>]
    /\ Left(w)
    /\ UNCHANGED <<rng, today, input, output>>

\* the calendar day ends
Midnight ==
    /\ today < MaxDay
    /\ today' = today + 1
    /\ UNCHANGED <<rng, pc, kind, i, assets, days, calls, responses, last,
                   switches, input, output>>

Step(w) ==
    \/ GetAssetsSeed(w)
    \/ GetAssetsIteration(w)
    \/ HealthCheck(w)
    \/ Return(w)

\* the process after import: no request yet, the generator seeded by the
\* operating system, hence in any state
ServerInit ==
    /\ today = 0
    /\ pc = [w \in Workers |-> "idle"]
    /\ kind = [w \in Workers |-> "/health"]
    /\ i = [w \in Workers |-> 0]
    /\ assets = [w \in Workers |-> <<>>]
    /\ days = [w \in Workers |-> <<>>]
    /\ calls = <<>>
    /\ responses = <<>>
    /\ last = 0
    /\ switches = 0

NotCalled == [called |-> FALSE, raised |-> FALSE, value |-> <<>>]

\* requests served one after the other
Init ==
    /\ rng \in 0..(RngMod - 1)
    /\ ServerInit
    /\ input = <<>>
    /\ output = NotCalled

Next ==
    \/ \E route \in Routes : AcceptAlone(First, route)
    \/ Step(First)
    \/ Midnight

\* the same within one calendar day
NextDay ==
    \/ \E route \in Routes : AcceptAlone(First, route)
    \/ Step(First)

SpecDay == Init /\ [][NextDay]_vars

Spec == Init /\ [][Next]_vars

\* requests served by the thread pool, overlapping, within one calendar day
NextPar ==
    \/ \E w \in Workers, route \in Routes : Accept(w, route)
    \/ \E w \in Workers : Step(w)

SpecPar == Init /\ [][NextPar]_vars

-----------------------------------------------------------------------------
(* calculate_insights called directly on any list of assets *)

Sixteenth == PerDollar \div 16

CalcValues ==
    {-1000 * PerDollar, 0, Sixteenth, 1000 * PerDollar, 2000 * PerDollar,
     3000 * PerDollar}

StatusSet == {Statuses[k] : k \in 1..Len(Statuses)}

InitCalc ==
    /\ rng = 0
    /\ ServerInit
    /\ input = <<>>
    /\ output = NotCalled

\* the caller puts one more asset on the list it is going to pass
AppendAsset(v, st) ==
    /\ ~output.called
    /\ Len(input) < MaxLen
    /\ input' = Append(input, Asset(AssetId(Len(input)), v, st, 0))
    /\ UNCHANGED <<serverVars, output>>

Calculate ==
    /\ ~output.called
    /\ LET r == calculate_insights(input)
       IN  output' = [called |-> TRUE, raised |-> r.raised, value |-> r.value]
    /\ UNCHANGED <<serverVars, input>>

NextCalc ==
    \/ \E v \in CalcValues, st \in StatusSet : AppendAsset(v, st)
    \/ Calculate

SpecCalc == InitCalc /\ [][NextCalc]_vars

-----------------------------------------------------------------------------
(* Properties *)

Ids(a) == [k \in 1..Len(a) |-> a[k].id]

ExpectedIds ==
    << "asset-001", "asset-002", "asset-003", "asset-004", "asset-005",
       "asset-006", "asset-007", "asset-008", "asset-009", "asset-010",
       "asset-011", "asset-012", "asset-013", "asset-014", "asset-015",
       "asset-016", "asset-017", "asset-018", "asset-019", "asset-020" >>

\* C1: every get_assets call, and every /assets response, carries exactly 20
\* assets whose ids are asset-001 .. asset-020 in this order, whatever calls
\* came before.
C1_IdsDense ==
    /\ \A k \in 1..Len(calls) : Ids(calls[k].assets) = ExpectedIds
    /\ \A k \in 1..Len(responses) :
          responses[k].route = "/assets" =>
              /\ responses[k].status_code = 200
              /\ Len(responses[k].body) = 20
              /\ Ids(responses[k].body) = ExpectedIds

\* a second call has returned after an earlier one, and one was GET /assets
C1_Witness ==
    /\ Len(calls) = 2
    /\ \E k \in 1..Len(responses) : responses[k].route = "/assets"

Draws(c) ==
    [k \in 1..Len(c.assets) |->
        [status |-> c.assets[k].status,
         offset |-> c.assets[k].due_date - c.days[k],
         nominal_value |-> c.assets[k].nominal_value]]

\* C2: every get_assets call, also one that overlaps another call, returns
\* the 20 (status, day offset, nominal_value) triples of a call running alone.
C2_Isolated == \A k \in 1..Len(calls) : Draws(calls[k]) = GetAssetsAlone

DaysOf(c) == {c.days[k] : k \in 1..Len(c.days)}

\* C3: two calls that do not overlap and see the same today return identical
\* lists, whatever the generator's state was before each of them.
C3_Deterministic ==
    \A a, b \in 1..Len(calls) :
        Cardinality(DaysOf(calls[a]) \cup DaysOf(calls[b])) = 1 =>
            calls[a].assets = calls[b].assets

\* two calls have returned, both within one day
C3_Witness ==
    /\ Len(calls) = 2
    /\ Cardinality(DaysOf(calls[1]) \cup DaysOf(calls[2])) = 1

\* C4: every asset of every call has a status among active, defaulted, paid,
\* a nominal_value in [1000, 50000] and a due_date that is the date read for
\* it plus a number of days in -90..180.
C4_Ranges ==
    \A k \in 1..Len(calls) : \A j \in 1..Len(calls[k].assets) :
        LET a == calls[k].assets[j]
        IN  /\ a.status \in {"active", "defaulted", "paid"}
            /\ a.nominal_value >= 1000 * PerDollar
            /\ a.nominal_value <= 50000 * PerDollar
            /\ a.due_date - calls[k].days[j] \in (-90)..180

\* a call has returned that ran across midnight and drew all three statuses
C4_Witness ==
    \E k \in 1..Len(calls) :
        /\ calls[k].days[1] # calls[k].days[NumAssets]
        /\ {calls[k].assets[j].status : j \in 1..NumAssets}
               = {"active", "defaulted", "paid"}

Names(v) == [k \in 1..Len(v) |-> <<v[k].id, v[k].name>>]

Values(v) == [k \in 1..Len(v) |-> v[k].value]

ExpectedNames ==
    << <<"insight-001", "total_portfolio_value">>,
       <<"insight-002", "default_rate">>,
       <<"insight-003", "outstanding_debt">>,
       <<"insight-004", "collection_rate">> >>

RECURSIVE ValueIn(_, _, _)
ValueIn(s, T, n) ==
    IF n = 0 THEN 0
    ELSE ValueIn(s, T, n - 1) + (IF s[n].status \in T THEN s[n].nominal_value ELSE 0)

Total(s) == ValueIn(s, {"active", "defaulted", "paid"}, Len(s))

CountIn(s, st) == Cardinality({k \in 1..Len(s) : s[k].status = st})

\* v hundredths is x (in 1/PerDollar) rounded to 2 decimals
IsRounded2(v, x) == 2 * Abs(x - v * Cent) <= Cent

\* v ten-thousandths is n/d rounded to 4 decimals
IsRounded4(v, n, d) ==
    LET g == GCD(Abs(n), Abs(d))
    IN  2 * Abs(10000 * (n \div g) - v * (d \div g)) <= Abs(d \div g)

ExampleABC ==
    << Asset("asset-001", 1000 * PerDollar, "active", 0),
       Asset("asset-002", 2000 * PerDollar, "defaulted", 0),
       Asset("asset-003", 3000 * PerDollar, "paid", 0) >>

\* C6: total_portfolio_value is the sum over all assets rounded to 2 decimals,
\* default_rate is count(defaulted)/count(all) rounded to 4, outstanding_debt
\* is the sum over the active assets rounded to 2, collection_rate is the sum
\* over the paid assets divided by the unrounded total rounded to 4; for
\* A(1000, active), B(2000, defaulted), C(3000, paid) the result is 6000.0,
\* 0.3333, 1000.0, 0.5.
C6_Formulas ==
    (output.called /\ ~output.raised) =>
        LET v == Values(output.value)
        IN  /\ IsRounded2(v[1], Total(input))
            /\ Len(input) # 0 =>
                   IsRounded4(v[2], CountIn(input, "defaulted"), Len(input))
            /\ IsRounded2(v[3], ValueIn(input, {"active"}, Len(input)))
            /\ Total(input) # 0 =>
                   IsRounded4(v[4], ValueIn(input, {"paid"}, Len(input)), Total(input))
            /\ input = ExampleABC => v = <<600000, 3333, 100000, 5000>>

\* the call was made on A, B, C
C6_Witness == output.called /\ input = ExampleABC

\* C7: on the empty list calculate_insights raises nothing and returns
\* total_portfolio_value 0.0, default_rate 0, outstanding_debt 0.0,
\* collection_rate 0, in this order.
C7_Empty ==
    (output.called /\ input = <<>>) =>
        /\ ~output.raised
        /\ Names(output.value) = ExpectedNames
        /\ Values(output.value) = <<0, 0, 0, 0>>

\* the call was made on the empty list
C7_Witness == output.called /\ input = <<>>

InUnit(v) == 0 <= v /\ v <= 10000

\* C8, as claimed: for every input default_rate is in [0, 1], and
\* collection_rate is in [0, 1] whenever the total value is greater than 0.
C8_RatesInUnit ==
    (output.called /\ ~output.raised) =>
        /\ InUnit(output.value[2].value)
        /\ Total(input) > 0 => InUnit(output.value[4].value)

NonNegative(s) == \A k \in 1..Len(s) : s[k].nominal_value >= 0

\* C8, amended: for every input default_rate is in [0, 1], and collection_rate
\* is in [0, 1] whenever the total value is greater than 0 and no nominal
\* value is negative.
C8_RatesInUnitNonNegative ==
    (output.called /\ ~output.raised) =>
        /\ InUnit(output.value[2].value)
        /\ (Total(input) > 0 /\ NonNegative(input)) => InUnit(output.value[4].value)

\* the call was made on non-negative values, some paid and some not, some
\* defaulted and some not
C8_Witness ==
    /\ output.called
    /\ ~output.raised
    /\ NonNegative(input)
    /\ Total(input) > 0
    /\ 0 < output.value[4].value /\ output.value[4].value < 10000
    /\ 0 < output.value[2].value /\ output.value[2].value < 10000

\* C9: calculate_insights never raises; on a non-empty list whose values sum
\* to 0 it returns collection_rate 0 without dividing, and on a list whose
\* total is not 0 collection_rate is the quotient by the total.
C9_NoZeroDivision ==
    output.called =>
        /\ ~output.raised
        /\ (Len(input) # 0 /\ Total(input) = 0) => output.value[4].value = 0
        /\ Total(input) # 0 =>
               IsRounded4(output.value[4].value,
                          ValueIn(input, {"paid"}, Len(input)), Total(input))

\* the call was made on non-zero values that cancel, one of them paid
C9_Witness ==
    /\ output.called
    /\ Len(input) # 0
    /\ Total(input) = 0
    /\ \E k \in 1..Len(input) :
          input[k].nominal_value # 0 /\ input[k].status = "paid"

\* C10: the body of every /insights response is calculate_insights of the
\* body of every /assets response, also when the day changed in between.
C10_InsightsOfAssets ==
    \A a, b \in 1..Len(responses) :
        (responses[a].route = "/assets" /\ responses[b].route = "/insights") =>
            LET r == calculate_insights(responses[a].body)
            IN  /\ responses[b].status_code = 200
                /\ ~r.raised
                /\ responses[b].body = r.value

\* /assets and /insights were both answered, from lists with different dates
C10_Witness ==
    /\ Len(responses) = 2
    /\ {responses[1].route, responses[2].route} = {"/assets", "/insights"}
    /\ calls[1].assets # calls[2].assets

====
